---- MODULE Spec2Model ----
(***************************************************************************)
(* rdu: disk usage of a path.  Model of src/src/lib.rs: the recursive      *)
(* walker (get_dir_data / get_file_size), the depth filter                 *)
(* (get_disk_usage), the optional sort and the two formatters              *)
(* (log_disk_usage, print_bytes, print_readable).                          *)
(*                                                                         *)
(* The filesystem is a tree of nodes 1..n (node 1 is the root path, a      *)
(* node's id stands for its PathBuf).  What the program learns of a node   *)
(* is what its probes answer, so a node's kind names the answers:          *)
(*   "dir"           is_dir() true at every probe, read_dir succeeds       *)
(*   "dir_gone"      is_dir() true for the caller (line 64 / 199), false   *)
(*                   from the entry of get_dir_data on (line 49): the      *)
(*                   directory was removed in between, with all it held    *)
(*   "dir_denied"    is_dir() true at every probe, fs::read_dir fails      *)
(*                   (line 40): the directory cannot be listed             *)
(*   "file"          is_file() true, fs::metadata succeeds, length len     *)
(*   "file_vanish"   is_file() true (line 103), fs::metadata fails         *)
(*                   (line 107)                                            *)
(*   "no_stat"       is_dir() and is_file() both false: the metadata of    *)
(*                   the entry cannot be retrieved already at the is_file  *)
(*                   probe (it vanished right after the listing, or        *)
(*                   permission is denied, or it is a dangling link)       *)
(*                                                                         *)
(* A size is a u64.  It is held as the pair [hi, lo] that stands for       *)
(* hi * 2^61 + lo, with 0 <= hi < 8 and lo below 2^31, so that sizes up to *)
(* 2^64 and the overflow of their sum are within reach of the arithmetic.  *)
(* The depth is a u16.  An addition that overflows panics in a build with  *)
(* overflow checks (debug) and wraps in a build without (release): the     *)
(* build is the variable overflow_checks.                                  *)
(***************************************************************************)
EXTENDS Integers, Sequences, FiniteSets, TLC

VARIABLES fs, overflow_checks, pc, max_depth, sort, human_readable, walk, usage,
          res, out

vars == <<fs, overflow_checks, pc, max_depth, sort, human_readable, walk, usage,
          res, out>>

\* ---------------------------------------------------------------- bounds
MaxNodes == 4
MaxFaults == 1
MaxArgDepth == 2
MaxRecs == 2

\* u16::MAX + 1, the modulus of the depth counter (PathSizeMetadata.depth)
U16Mod == 65536

\* 2^64 / 2^61, the modulus of the hi part of a size (PathSizeMetadata.size)
U64Hi == 8

\* the u64 hi * 2^61 + lo
U64(hi, lo) == [hi |-> hi, lo |-> lo]

\* the u64 n, for n below 2^31
Bytes(n) == U64(0, n)

\* < and <= on u64
u64_lt(a, b) == a.hi < b.hi \/ (a.hi = b.hi /\ a.lo < b.lo)

u64_le(a, b) == a = b \/ u64_lt(a, b)

\* file lengths: empty, one byte, and a sparse file of 3 * 2^61 bytes
FileLens == {Bytes(0), Bytes(1), U64(3, 0)}

DirKinds == {"dir", "dir_gone", "dir_denied"}
FaultKinds == {"dir_gone", "dir_denied", "file_vanish", "no_stat"}

\* the directories that hold entries when the walk comes to them
HolderKinds == {"dir", "dir_denied"}

\* ------------------------------------------------------------ filesystem
Node(parent, kind, len) == [parent |-> parent, kind |-> kind, len |-> len]

NodeShapes == {<<"file", l>> : l \in FileLens}
                \cup {<<k, Bytes(0)>> : k \in {"dir"} \cup FaultKinds}

Faults(t) == Cardinality({i \in DOMAIN t : t[i].kind \in FaultKinds})

Roots == {<<Node(0, s[1], s[2])>> : s \in NodeShapes}

Grow(t) == {Append(t, Node(p, s[1], s[2])) :
              p \in {i \in DOMAIN t : t[i].kind \in HolderKinds},
              s \in {x \in NodeShapes : x[1] \in FaultKinds => Faults(t) < MaxFaults}}

RECURSIVE TreesOfSize(_)
TreesOfSize(n) == IF n = 1 THEN {t \in Roots : Faults(t) <= MaxFaults}
                  ELSE UNION {Grow(t) : t \in TreesOfSize(n - 1)}

Trees == UNION {TreesOfSize(n) : n \in 1..MaxNodes}

Root == 1

\* ----------------------------------------------------------------- probes
\* Path::is_dir() as the caller sees it (lines 64, 199)
is_dir(path) == fs[path].kind \in DirKinds

\* Path::is_dir() on entry to get_dir_data (line 49)
is_dir_on_entry(path) == fs[path].kind \in {"dir", "dir_denied"}

\* Path::is_file() (line 103)
is_file(path) == fs[path].kind \in {"file", "file_vanish"}

\* fs::metadata(path) succeeds (line 107)
metadata_ok(path) == fs[path].kind = "file"

\* the entries fs::read_dir yields, in listing order
RECURSIVE ListFrom(_, _)
ListFrom(dir_path, i) ==
    IF i > Len(fs) THEN <<>>
    ELSE IF fs[i].parent = dir_path THEN <<i>> \o ListFrom(dir_path, i + 1)
    ELSE ListFrom(dir_path, i + 1)

\* ----------------------------------------------------------------- walker
DepthNone == [tag |-> "None", d |-> 0]
DepthOf(d) == [tag |-> "Depth", d |-> d]

\* match depth { Depth::None => 0, Depth::Depth(d) => d }
depth_value(depth) == IF depth.tag = "None" THEN 0 ELSE depth.d

\* the outcome of an integer addition: its value, or the panic
\* 'attempt to add with overflow'
Value(v) == [tag |-> "Value", v |-> v]
Overflow == [tag |-> "Overflow", v |-> 0]

\* an addition that left its type: panics with overflow checks, wraps without
on_overflow(wrapped) == IF overflow_checks THEN Overflow ELSE Value(wrapped)

\* mutant: the child is handed the directory's own depth
child_depth_same(current_depth) == Value(current_depth)

\* current_depth + 1 on a u16
child_depth(current_depth) ==
    IF current_depth + 1 < U16Mod THEN Value(current_depth + 1)
    ELSE on_overflow((current_depth + 1) % U16Mod)

PathSizeMetadata(path, size, depth) == [path |-> path, size |-> size, depth |-> depth]

Ok(md, size) == [tag |-> "Ok", md |-> md, size |-> size]
Err == [tag |-> "Err", md |-> <<>>, size |-> Bytes(0)]
Panic == [tag |-> "Panic", md |-> <<>>, size |-> Bytes(0)]

read_dir_contents(dir_path) ==
    IF ~is_dir_on_entry(dir_path) THEN Err
    ELSE IF fs[dir_path].kind = "dir_denied" THEN Panic
    ELSE Ok(ListFrom(dir_path, 1), Bytes(0))

\* mutant: a failing fs::metadata is answered with Err, as a non-file is
get_file_size_lenient(file_path, depth) ==
    IF is_file(file_path) /\ metadata_ok(file_path)
    THEN Ok(<<PathSizeMetadata(file_path, fs[file_path].len, depth_value(depth))>>,
            fs[file_path].len)
    ELSE Err

get_file_size(file_path, depth) ==
    IF ~is_file(file_path) THEN Err
    ELSE IF metadata_ok(file_path)
         THEN Ok(<<PathSizeMetadata(file_path, fs[file_path].len, depth_value(depth))>>,
                 fs[file_path].len)
         ELSE Panic

\* size += data.1 / size += data.size on a u64
add_size(size, more) ==
    LET hi == size.hi + more.hi
        lo == size.lo + more.lo
    IN IF hi < U64Hi THEN Value(U64(hi, lo))
       ELSE on_overflow(U64(hi % U64Hi, lo))

\* Err(_e) => {} : what an entry that answered Err leaves of the loop state
skip_entry(acc) == acc

\* what the loop does with one entry's result
absorb(acc, data) ==
    IF data.tag = "Panic" THEN Panic
    ELSE IF data.tag = "Err" THEN skip_entry(acc)
    ELSE LET size == add_size(acc.size, data.size)
         IN IF size.tag = "Overflow" THEN Panic
            ELSE Ok(acc.md \o data.md, size.v)

\* mutant: the directory's record is given the depth of its children
own_record_deeper(dir_path, size, depth) ==
    PathSizeMetadata(dir_path, size, depth_value(depth) + 1)

\* the directory's own record, pushed after the loop (lines 83-90)
own_record(dir_path, size, depth) == PathSizeMetadata(dir_path, size, depth_value(depth))

\* mutant: the directory's record is put in front of its children's
push_own_first(md, record) == <<record>> \o md

\* metadata.push(PathSizeMetadata { .. }) (line 83)
push_own(md, record) == Append(md, record)

RECURSIVE get_dir_data(_, _)
RECURSIVE for_paths(_, _, _)

\* the loop of lines 63-81 over the listed paths
for_paths(paths, current_depth, acc) ==
    IF paths = <<>> \/ acc.tag = "Panic" THEN acc
    ELSE LET path == Head(paths)
             next_depth == child_depth(current_depth)
             data == IF next_depth.tag = "Overflow" THEN Panic
                     ELSE IF is_dir(path)
                     THEN get_dir_data(path, DepthOf(next_depth.v))
                     ELSE get_file_size(path, DepthOf(next_depth.v))
         IN for_paths(Tail(paths), current_depth, absorb(acc, data))

get_dir_data(dir_path, depth) ==
    IF ~is_dir_on_entry(dir_path) THEN Err
    ELSE LET current_depth == depth_value(depth)
             listing == read_dir_contents(dir_path)
         IN IF listing.tag # "Ok" THEN Panic
            ELSE LET body == for_paths(listing.md, current_depth, Ok(<<>>, Bytes(0)))
                 IN IF body.tag = "Panic" THEN Panic
                    ELSE Ok(push_own(body.md, own_record(dir_path, body.size, depth)),
                            body.size)

\* ------------------------------------------------------------ depth filter
\* mutant: the filter is strict
keep_strict(data, depth) == data.depth < depth

\* .filter(|data| data.depth <= depth)
keep(data, depth) == data.depth <= depth

RECURSIVE filter(_, _)
filter(md, depth) ==
    IF md = <<>> THEN <<>>
    ELSE IF keep(Head(md), depth) THEN <<Head(md)>> \o filter(Tail(md), depth)
    ELSE filter(Tail(md), depth)

\* Result::unwrap
unwrap(r) == IF r.tag = "Ok" THEN r ELSE Panic

\* the records get_disk_usage holds before the depth filter: the walker's
\* whole Vec for a directory, the one record of vec![..] for a file
unfiltered(path) ==
    IF is_dir(path) THEN unwrap(get_dir_data(path, DepthNone))
    ELSE unwrap(get_file_size(path, DepthOf(0)))

get_disk_usage(path, depth) ==
    LET r == unfiltered(path)
    IN IF r.tag = "Panic" THEN Panic
       ELSE IF is_dir(path) THEN Ok(filter(r.md, depth), Bytes(0))
       ELSE r

\* ------------------------------------------------------------------ state
Init ==
    /\ fs \in Trees
    /\ overflow_checks \in BOOLEAN
    /\ pc = "start"
    /\ max_depth = 0
    /\ sort = FALSE
    /\ human_readable = FALSE
    /\ walk = <<>>
    /\ usage = <<>>
    /\ res = <<>>
    /\ out = <<>>

\* log_disk_usage line 212: let mut res = get_disk_usage(path, depth)
GetDiskUsage ==
    /\ pc = "start"
    /\ \E depth \in 0..MaxArgDepth :
         LET r == get_disk_usage(Root, depth)
         IN /\ max_depth' = depth
            /\ IF r.tag = "Panic"
               THEN pc' = "panicked" /\ UNCHANGED <<walk, usage, res>>
               ELSE /\ pc' = "usage"
                    /\ walk' = unfiltered(Root).md
                    /\ usage' = r.md
                    /\ res' = r.md
    /\ UNCHANGED <<fs, overflow_checks, sort, human_readable, out>>

\* ------------------------------------------------------------------- sort
\* Vec::sort_by_key(|d| d.size): a stable sort, ascending by size.
\* The position at which one more record enters an already sorted prefix:
\* behind every record whose key is not greater.
\* mutant: a record of equal key is overtaken (an unstable sort)
goes_before_strict(a, b) == u64_lt(a.size, b.size)

goes_before(a, b) == u64_le(a.size, b.size)

RECURSIVE insert(_, _)
insert(sorted, d) ==
    IF sorted = <<>> THEN <<d>>
    ELSE IF goes_before(Head(sorted), d) THEN <<Head(sorted)>> \o insert(Tail(sorted), d)
    ELSE <<d>> \o sorted

RECURSIVE sort_by_key(_)
sort_by_key(data) ==
    IF data = <<>> THEN <<>>
    ELSE insert(sort_by_key(SubSeq(data, 1, Len(data) - 1)), data[Len(data)])

\* ------------------------------------------------------------- formatting
\* f64::log(10).ceil() of an integer n >= 1: the least k with 10^k >= n
\* (ln(n)/ln(10) rounds to the exact ceiling for every n below 2^31)
RECURSIVE log10_ceil(_)
log10_ceil(n) == IF n <= 1 THEN 0 ELSE 1 + log10_ceil((n + 9) \div 10)

\* the base-10^6 limbs of a u64, most significant first
\* (2^61 = 2 305843 009213 693952)
limbs(size) ==
    LET l0 == size.hi * 693952 + (size.lo % 1000000)
        l1 == size.hi * 9213 + (size.lo \div 1000000) + (l0 \div 1000000)
        l2 == size.hi * 305843 + (l1 \div 1000000)
        l3 == size.hi * 2 + (l2 \div 1000000)
    IN <<l3, l2 % 1000000, l1 % 1000000, l0 % 1000000>>

RECURSIVE zero_pad(_, _)
zero_pad(s, width) == IF Len(s) >= width THEN s ELSE zero_pad("0" \o s, width)

\* Display of a u64: its decimal digits
to_string(size) ==
    IF size.hi = 0 THEN ToString(size.lo)
    ELSE LET l == limbs(size)
         IN ToString(l[1]) \o zero_pad(ToString(l[2]), 6)
              \o zero_pad(ToString(l[3]), 6) \o zero_pad(ToString(l[4]), 6)

\* (*self as f64).log(10_f64).ceil(): from 2^61 on the value is no power of
\* ten and lies more than 4% off the nearest one, so the ceiling of the
\* logarithm is the number of decimal digits
f64_log10_ceil(n) == IF n.hi = 0 THEN log10_ceil(n.lo) ELSE Len(to_string(n))

\* impl DigitCount for u64
get_num_digits(n) == IF u64_lt(n, Bytes(2)) THEN 1 ELSE f64_log10_ceil(n)

\* {:<width$}: left-aligned, padded with spaces to at least width
RECURSIVE pad(_, _)
pad(s, width) == IF Len(s) >= width THEN s ELSE pad(s \o " ", width)

\* item.path.display()
display(path) == "p" \o ToString(path)

\* data.iter().max_by_key(|md| md.size).unwrap().size
RECURSIVE max_size(_)
max_size(data) ==
    IF Len(data) = 1 THEN data[1].size
    ELSE LET m == max_size(Tail(data))
         IN IF u64_lt(m, data[1].size) THEN data[1].size ELSE m

\* the column width print_bytes pads to
bytes_width(data) == get_num_digits(max_size(data))

bytes_column(item, max_digits) == pad(to_string(item.size), max_digits)

print_bytes(data) ==
    [i \in 1..Len(data) |->
        bytes_column(data[i], bytes_width(data)) \o "  " \o display(data[i].path)]

\* The f64 of print_readable is the quotient num / den, den = 1024^count
\* (u64 -> f64 and the divisions by 1024 are exact below 2^53).
Kib == 1024

\* while size >= 1024 { size /= 1024; truncate_count += 1 }
RECURSIVE truncate(_, _, _)
truncate(num, den, truncate_count) ==
    IF num \div den >= Kib THEN truncate(num, den * Kib, truncate_count + 1)
    ELSE [num |-> num, den |-> den, count |-> truncate_count]

\* units.get(&truncate_count).unwrap_or(&'?')
unit(truncate_count) ==
    CASE truncate_count = 0 -> "B"
      [] truncate_count = 1 -> "K"
      [] truncate_count = 2 -> "M"
      [] truncate_count = 3 -> "G"
      [] OTHER -> "?"

\* mutant: the decimal place is kept up to 10
below_10(num, den) == num \div den < 10

\* size < 9.95 (no quotient k / 1024^c lies between the f64 9.95 and 9.95)
below_9_95(num, den) ==
    LET q == num \div den
        r == num % den
    IN q < 9 \/ (q = 9 /\ r * 20 < 19 * den)

\* (10 * r) div den and (10 * r) mod den for 0 <= r < den, den a power of 1024
ten_div(r, den) ==
    IF den < Kib THEN 0
    ELSE (10 * (r \div Kib) + ((10 * (r % Kib)) \div Kib)) \div (den \div Kib)

ten_mod(r, den) ==
    IF den < Kib THEN 0
    ELSE (((10 * (r \div Kib) + ((10 * (r % Kib)) \div Kib)) % (den \div Kib)) * Kib)
         + ((10 * (r % Kib)) % Kib)

\* round to nearest, ties to even: t is the truncated value, r / den what was cut
round_even(t, r, den) ==
    IF 2 * r > den \/ (2 * r = den /\ t % 2 = 1) THEN t + 1 ELSE t

\* format!("{:.1}", size)
one_decimal(num, den) ==
    LET t == round_even(10 * (num \div den) + ten_div(num % den, den),
                        ten_mod(num % den, den), den)
    IN ToString(t \div 10) \o "." \o ToString(t % 10)

\* format!("{:.0}", size)
no_decimal(num, den) == ToString(round_even(num \div den, num % den, den))

\* item.size as f64, then the loop.  From 2^61 on the loop divides six times
\* (2^60 = 1024^6) and leaves 2 * hi + lo / 2^60 below 16; lo / 2^60 is below
\* 2^-29 (and lost in part by the conversion), too little to move the
\* comparison with 9.95 or the rounding to one decimal place or to none.
scaled(size) ==
    IF size.hi = 0 THEN truncate(size.lo, 1, 0)
    ELSE [num |-> 2 * size.hi, den |-> 1, count |-> 6]

\* format!("{:.2$}{}", size, unit, (size < 9.95) as usize)
readable(size) ==
    LET s == scaled(size)
    IN (IF below_9_95(s.num, s.den) THEN one_decimal(s.num, s.den)
        ELSE no_decimal(s.num, s.den)) \o unit(s.count)

\* max_digits of print_readable
ReadableWidth == 4

print_readable(data) ==
    [i \in 1..Len(data) |->
        pad(readable(data[i].size), ReadableWidth) \o "  " \o display(data[i].path)]

\* log_disk_usage lines 214-216: if sort { res.sort_by_key(|d| d.size) }
SortStep ==
    /\ pc = "usage"
    /\ \E s \in BOOLEAN :
         /\ sort' = s
         /\ res' = IF s THEN sort_by_key(res) ELSE res
    /\ pc' = "sorted"
    /\ UNCHANGED <<fs, overflow_checks, max_depth, human_readable, walk, usage, out>>

\* log_disk_usage lines 220-221 with human_readable = false
PrintBytes ==
    /\ pc = "sorted"
    /\ human_readable' = FALSE
    /\ IF res = <<>>
       THEN pc' = "panicked" /\ UNCHANGED out
       ELSE pc' = "done" /\ out' = print_bytes(res)
    /\ UNCHANGED <<fs, overflow_checks, max_depth, sort, walk, usage, res>>

\* log_disk_usage lines 218-219 with human_readable = true
PrintReadable ==
    /\ pc = "sorted"
    /\ human_readable' = TRUE
    /\ pc' = "done"
    /\ out' = print_readable(res)
    /\ UNCHANGED <<fs, overflow_checks, max_depth, sort, walk, usage, res>>

Next == GetDiskUsage \/ SortStep \/ PrintBytes \/ PrintReadable

Spec == Init /\ [][Next]_vars

\* ------------------------------------------------ the formatters on their own
SampleSizes == {Bytes(n) : n \in {0, 1, 9, 10, 11, 100, 999, 1000, 1023, 1024,
                                  1280, 10188, 10189, 10240, 1048064, 1048576,
                                  10485760, 1073741824, 2000000000}}
                 \cup {U64(3, 0), U64(5, 7)}

RecordsOfLen(n) ==
    {[i \in 1..n |-> PathSizeMetadata(i, f[i], 0)] : f \in [1..n -> SampleSizes]}

FmtInit ==
    /\ fs = <<Node(0, "dir", Bytes(0))>>
    /\ overflow_checks \in BOOLEAN
    /\ pc = "sorted"
    /\ max_depth = 0
    /\ sort = FALSE
    /\ human_readable = FALSE
    /\ res \in UNION {RecordsOfLen(n) : n \in 1..MaxRecs}
    /\ walk = res
    /\ usage = res
    /\ out = <<>>

FmtNext == PrintBytes \/ PrintReadable

FmtSpec == FmtInit /\ [][FmtNext]_vars

\* ------------------------------------------------- the tree, seen from outside
Nodes == DOMAIN fs

\* directory-containment hops from the traversal root
RECURSIVE Hops(_)
Hops(n) == IF fs[n].parent = 0 THEN 0 ELSE 1 + Hops(fs[n].parent)

\* n lies beneath directory d, at any depth
RECURSIVE IsUnder(_, _)
IsUnder(n, d) == fs[n].parent # 0 /\ (fs[n].parent = d \/ IsUnder(fs[n].parent, d))

\* the walk comes to n: every directory above it exists and can be listed
RECURSIVE Met(_)
Met(n) == n = Root \/ (fs[fs[n].parent].kind = "dir" /\ Met(fs[n].parent))

\* n can be stat-ed all through the walk
Statable(n) == Met(n) /\ fs[n].kind \in {"dir", "file"}

Records(seq) == {seq[i] : i \in DOMAIN seq}

IndexIn(seq, x) == CHOOSE i \in DOMAIN seq : seq[i] = x

\* a sum of byte counts as a number, not as a u64: hi is not reduced
Plus(a, b) == [hi |-> a.hi + b.hi, lo |-> a.lo + b.lo]

RECURSIVE SumSizes(_)
SumSizes(S) == IF S = {} THEN Bytes(0)
               ELSE LET x == CHOOSE x \in S : TRUE IN Plus(x.size, SumSizes(S \ {x}))

RECURSIVE SumLens(_)
SumLens(S) == IF S = {} THEN Bytes(0)
              ELSE LET n == CHOOSE n \in S : TRUE IN Plus(fs[n].len, SumLens(S \ {n}))

\* get_disk_usage has returned its records
Returned == pc \in {"usage", "sorted", "done"}

\* ---------------------------------------------------------------- claims
\* C1 as claimed: every directory record get_disk_usage returns has as size
\* the sum of the sizes of the walker's records of its direct children, which
\* is the sum of the lengths of all regular files beneath it however deep,
\* for every tree and whatever the maximum depth asked for.
C1_DirSizeIsSumOfChildren ==
    Returned =>
        \A r \in Records(res) :
            fs[r.path].kind = "dir" =>
                /\ r.size = SumSizes({c \in Records(walk) : fs[c.path].parent = r.path})
                /\ r.size = SumLens({n \in Nodes : IsUnder(n, r.path) /\ is_file(n)})

\* C9: every record of the walk carries as depth the number of containment
\* hops from the root: 0 for the root, the parent's depth + 1 for every child,
\* within the 16-bit counter.
C9_DepthIsHops ==
    Returned =>
        \A r \in Records(walk) :
            /\ r.depth = Hops(r.path)
            /\ r.depth < U16Mod
            /\ r.path = Root => r.depth = 0
            /\ r.path # Root =>
                 \E q \in Records(walk) : /\ q.path = fs[r.path].parent
                                          /\ r.depth = q.depth + 1

\* a file and a directory recorded two or more levels down
C9_Witness ==
    /\ Returned
    /\ \E r, q \in Records(walk) : /\ r.depth >= 2
                                   /\ fs[r.path].kind = "file"
                                   /\ q.depth >= 2
                                   /\ fs[q.path].kind = "dir"

\* C10: the unfiltered walk holds exactly one record for every file and
\* directory that can be stat-ed, a directory's record comes after the records
\* of all its descendants, and the root's record is the last one.
C10_OneRecordEachParentLast ==
    Returned =>
        /\ {r.path : r \in Records(walk)} = {n \in Nodes : Statable(n)}
        /\ \A i, j \in DOMAIN walk : walk[i].path = walk[j].path => i = j
        /\ \A i, j \in DOMAIN walk : IsUnder(walk[i].path, walk[j].path) => i < j
        /\ walk[Len(walk)].path = Root

\* a walk over nested directories next to an entry that cannot be stat-ed
C10_Witness ==
    /\ Returned
    /\ Len(walk) >= 3
    /\ \E n \in Nodes : Met(n) /\ ~Statable(n)
    /\ \E i, j \in DOMAIN walk : walk[i].path # Root /\ IsUnder(walk[j].path, walk[i].path)

\* C4: for a directory root, get_disk_usage returns exactly the walker's
\* records of depth <= D, in the walker's order and unchanged; a smaller D
\* returns a subset, and D = 0 returns the root record alone.
C4_DepthFilter ==
    (Returned /\ is_dir(Root)) =>
        /\ Records(usage) = {r \in Records(walk) : r.depth <= max_depth}
        /\ Len(usage) = Cardinality(Records(usage))
        /\ \A i, j \in DOMAIN usage :
             i < j => IndexIn(walk, usage[i]) < IndexIn(walk, usage[j])
        /\ \A d \in 0..max_depth :
             Records(get_disk_usage(Root, d).md) \subseteq Records(usage)
        /\ max_depth = 0 => (Len(usage) = 1 /\ usage[1].path = Root)

\* the filter dropped a record and kept records of two depths
C4_Witness ==
    /\ pc = "usage"
    /\ is_dir(Root)
    /\ max_depth = 1
    /\ Len(usage) < Len(walk)
    /\ Len(usage) >= 3

\* C5: whatever the root and the maximum depth, the result holds exactly one
\* record for the root path, of depth 0, so the formatter never gets an empty
\* set; for a root that is a file the result is that one record, with the
\* file's length.
C5_RootRecord ==
    Returned =>
        /\ Cardinality({i \in DOMAIN usage : usage[i].path = Root}) = 1
        /\ \A i \in DOMAIN usage : usage[i].path = Root => usage[i].depth = 0
        /\ res # <<>>
        /\ is_file(Root) => usage = <<PathSizeMetadata(Root, fs[Root].len, 0)>>

\* the root record was handed on with deeper records cut away
C5_Witness ==
    /\ pc = "sorted"
    /\ is_dir(Root)
    /\ Len(walk) > 1
    /\ max_depth = 0
    /\ res = <<PathSizeMetadata(Root, walk[Len(walk)].size, 0)>>
    /\ u64_lt(Bytes(0), res[1].size)

\* C6: with sort enabled the formatter gets a permutation of the filtered
\* records in non-decreasing size order, records of equal size in the order
\* the walker produced them; with sort disabled it gets the filtered records
\* unchanged.
C6_StableSort ==
    pc \in {"sorted", "done"} =>
        IF sort
        THEN /\ Records(res) = Records(usage)
             /\ Len(res) = Len(usage)
             /\ \A i, j \in DOMAIN res :
                  i < j => /\ u64_le(res[i].size, res[j].size)
                           /\ res[i].size = res[j].size =>
                                IndexIn(usage, res[i]) < IndexIn(usage, res[j])
        ELSE res = usage

\* the sort moved a record and had records of equal size to keep in order
C6_Witness ==
    /\ pc = "sorted"
    /\ sort
    /\ res # usage
    /\ \E i, j \in DOMAIN res : i < j /\ res[i].size = res[j].size

\* the walk comes to a file whose metadata fails once is_file has passed
StatFailsLate == \E n \in Nodes : n # Root /\ Met(n) /\ fs[n].kind = "file_vanish"

\* the walk comes to an entry whose metadata fails already at the is_file probe
StatFailsEarly == \E n \in Nodes : n # Root /\ Met(n) /\ fs[n].kind = "no_stat"

\* the walk comes to a subdirectory that passes is_dir and cannot be listed
ListingDenied == \E n \in Nodes : n # Root /\ Met(n) /\ fs[n].kind = "dir_denied"

\* C3 as claimed: whenever metadata retrieval fails for an entry met during
\* the walk, at whatever point after the listing, the run aborts without
\* output and the entry is never skipped.
C3_AnyStatFailureAborts ==
    (pc # "start" /\ (StatFailsLate \/ StatFailsEarly)) =>
        (pc = "panicked" /\ out = <<>>)

\* the sizes of the files the walk adds up leave the u64
SizesOverflow ==
    SumLens({n \in Nodes : Statable(n) /\ is_file(n)}).hi >= U64Hi

\* C3 amended: a file whose fs::metadata fails after its is_file check passed
\* aborts the run without output; an entry whose metadata fails already at the
\* is_file check does not: it is skipped, with no record and no size, and the
\* records of the other entries are returned.
C3_LateFailureAbortsEarlySkips ==
    pc # "start" =>
        /\ StatFailsLate => (pc = "panicked" /\ out = <<>> /\ res = <<>>)
        /\ (StatFailsEarly /\ ~StatFailsLate /\ ~ListingDenied
              /\ ~(SizesOverflow /\ overflow_checks)) =>
             /\ Returned
             /\ \A r \in Records(walk) : fs[r.path].kind # "no_stat"
             /\ {r.path : r \in Records(walk)} = {n \in Nodes : Statable(n)}

\* the run has aborted on a file that vanished between is_file and fs::metadata
C3_Witness ==
    /\ pc = "panicked"
    /\ is_dir(Root)
    /\ \E n \in Nodes : Met(n) /\ fs[n].kind = "file_vanish" /\ n # Root

\* C2 as claimed: a subdirectory that cannot be listed does not abort the
\* walk; it and its descendants get no record, it adds nothing to its parent,
\* and every other record is returned: the root's size is the sum of the files
\* outside the unreadable subtree.
C2_UnreadableSubdirIsSkipped ==
    (pc # "start" /\ ListingDenied /\ ~StatFailsLate) =>
        /\ Returned
        /\ {r.path : r \in Records(walk)} = {n \in Nodes : Statable(n)}
        /\ walk[Len(walk)].size = SumLens({n \in Nodes : Statable(n) /\ is_file(n)})

\* ------------------------------------------------ the output, seen from outside
\* the number of decimal digits of n
RECURSIVE DecimalDigits(_)
DecimalDigits(n) == IF n < 10 THEN 1 ELSE 1 + DecimalDigits(n \div 10)

\* the number of decimal digits of a byte count (hi * 2^61 + lo is below
\* 10^19 up to hi = 4 and from 10^19 on above)
DigitsOf(size) == IF size.hi = 0 THEN DecimalDigits(size.lo)
                  ELSE IF size.hi <= 4 THEN 19 ELSE 20

LargestSize(data) == CHOOSE m \in {r.size : r \in Records(data)} :
                        \A r \in Records(data) : u64_le(r.size, m)

\* an output line: the size column, two spaces, the path
Line(column, path) == column \o "  " \o display(path)

\* C7 as claimed: in raw-bytes mode every line's column is as wide as the
\* number of decimal digits of the largest size of the set (1 for 0 and 1,
\* k + 1 for 10^k), so no byte count is wider than the column.
C7_WidthIsDigitCountOfMax ==
    (pc = "done" /\ ~human_readable) =>
        \A i \in DOMAIN out :
            /\ Len(out[i]) = Len(Line("", res[i].path)) + DigitsOf(LargestSize(res))
            /\ Len(to_string(res[i].size)) <= DigitsOf(LargestSize(res))

RECURSIVE Pow1024(_)
Pow1024(k) == IF k = 0 THEN 1 ELSE 1024 * Pow1024(k - 1)

\* how often n is divided by 1024 until it is below 1024
Scale(n) == CHOOSE k \in 0..3 : /\ n \div Pow1024(k) < 1024
                                /\ k > 0 => n \div Pow1024(k - 1) >= 1024

UnitName(k) == <<"B", "K", "M", "G">>[k + 1]

Abs(x) == IF x < 0 THEN 0 - x ELSE x

\* the renderings of n / den to one decimal place and to none
OneDecimalTexts(n, den) ==
    {ToString(t \div 10) \o "." \o ToString(t % 10) :
        t \in {u \in 0..99 : 2 * Abs(10 * n - u * den) <= den}}

NoDecimalTexts(n, den) ==
    {ToString(t) : t \in {u \in 0..1024 : 2 * Abs(n - u * den) <= den}}

\* what the rule of C8 allows for n: the scaled value with one decimal place
\* below 9.95 and with none from 9.95 on, then the unit
ReadableTexts(n) ==
    LET k == Scale(n)
        den == Pow1024(k)
    IN {t \o UnitName(k) :
          t \in IF 20 * n < 199 * den THEN OneDecimalTexts(n, den)
                ELSE NoDecimalTexts(n, den)}

\* the sizes whose rule is computed within TLC's integers
RuleComputable(size) == size.hi = 0 /\ size.lo <= 10 * 1024 * 1024

\* the column of line i is one of texts, padded to the width of the column
ColumnIn(i, texts) == \E t \in texts : out[i] = Line(pad(t, ReadableWidth), res[i].path)

\* the unit of the column of line i: its last character before the padding
UnitIs(i, u) ==
    \E t \in {d \o u : d \in {ToString(w) : w \in 0..1023}
                              \cup {ToString(w) \o "." \o ToString(f) : w, f \in 0..9}} :
        out[i] = Line(pad(t, ReadableWidth), res[i].path)

ReadableRule(i) ==
    /\ RuleComputable(res[i].size) => ColumnIn(i, ReadableTexts(res[i].size.lo))
    /\ res[i].size = Bytes(1023) => ColumnIn(i, {"1023B"})
    /\ res[i].size = Bytes(1024) => ColumnIn(i, {"1.0K"})
    /\ res[i].size = Bytes(1024 * 1024) => ColumnIn(i, {"1.0M"})
    /\ res[i].size = Bytes(10 * 1024) => ColumnIn(i, {"10K"})
    /\ res[i].size = Bytes(1024 * 1024 * 1024) => ColumnIn(i, {"1.0G"})
    /\ res[i].size.hi > 0 => UnitIs(i, "?")
    /\ res[i].size = U64(3, 0) => ColumnIn(i, {"6.0?"})
    /\ res[i].size = U64(5, 7) => ColumnIn(i, {"10?"})

\* C8 as claimed: the scaled value with one decimal place below 9.95 and none
\* otherwise, the unit by the number of divisions, and 0 rendered as 0B.
C8_ZeroRendersWithoutDecimal ==
    (pc = "done" /\ human_readable) =>
        \A i \in DOMAIN out :
            ReadableRule(i) /\ (res[i].size = Bytes(0) => ColumnIn(i, {"0B"}))

\* C8 amended: the same rule and examples, with 0 rendered as 0.0B (0 is
\* below 9.95 and gets its decimal place like every other value below 9.95).
C8_ReadableRule ==
    (pc = "done" /\ human_readable) =>
        \A i \in DOMAIN out :
            ReadableRule(i) /\ (res[i].size = Bytes(0) => ColumnIn(i, {"0.0B"}))

\* printed: 0 next to a value just past 9.95 in its unit
C8_Witness ==
    /\ pc = "done"
    /\ human_readable
    /\ \E i, j \in DOMAIN res : res[i].size = Bytes(0) /\ res[j].size = Bytes(10189)
====
